---------------------------- MODULE Spec2Model ----------------------------
(***************************************************************************)
(* A model of orian_simulation: the chronological market cursor            *)
(* (market.py), the wallet and the transaction components (transaction.py),*)
(* the prediction algorithms (trading/algorithm.py), the strategy          *)
(* (strategy.py) and the simulation loop (simulation.py).                  *)
(*                                                                         *)
(* Dates are whole days (integers), so that (current_date - date).days is  *)
(* their difference.  Python floats are modelled as exact rationals        *)
(* [n, d] in lowest terms with d > 0: the model does not show float        *)
(* rounding, except in one direct call (a BUY of the whole balance), which *)
(* is computed in binary64.  Prices are positive.                          *)
(***************************************************************************)
EXTENDS Integers, Sequences, FiniteSets, TLC

(***************************************************************************)
(* Rational arithmetic (the model of float)                                *)
(***************************************************************************)
Abs(i) == IF i < 0 THEN -i ELSE i

RECURSIVE GCD(_, _)
GCD(a, b) == IF b = 0 THEN a ELSE GCD(b, a % b)

Norm(n, d) ==
    LET g == GCD(Abs(n), d)
    IN  IF n = 0 THEN [n |-> 0, d |-> 1] ELSE [n |-> n \div g, d |-> d \div g]

R(i) == [n |-> i, d |-> 1]
Frac(n, d) == Norm(n, d)

RAdd(x, y) ==
    LET l == (x.d \div GCD(x.d, y.d)) * y.d
    IN  Norm(x.n * (l \div x.d) + y.n * (l \div y.d), l)
RNeg(x) == [n |-> -x.n, d |-> x.d]
RSub(x, y) == RAdd(x, RNeg(y))
RMul(x, y) ==
    LET a == Norm(x.n, y.d)
        b == Norm(y.n, x.d)
    IN  [n |-> a.n * b.n, d |-> a.d * b.d]
\* x / y for y # 0
RDiv(x, y) ==
    IF y.n > 0 THEN RMul(x, [n |-> y.d, d |-> y.n])
    ELSE RMul(x, [n |-> -y.d, d |-> -y.n])
RLt(x, y) == RSub(x, y).n < 0
\* Python's min(a, b): b if b < a else a
RMin(a, b) == IF RLt(b, a) THEN b ELSE a
RIsInt(x) == x.d = 1

\* max(values), min(values) of a list that is not empty
RECURSIVE RMaxOf(_)
RMaxOf(values) ==
    IF Len(values) = 1 THEN values[1]
    ELSE LET rest == RMaxOf(SubSeq(values, 2, Len(values)))
         IN  IF RLt(values[1], rest) THEN rest ELSE values[1]

RECURSIVE RMinOf(_)
RMinOf(values) ==
    IF Len(values) = 1 THEN values[1]
    ELSE LET rest == RMinOf(SubSeq(values, 2, Len(values)))
         IN  IF RLt(rest, values[1]) THEN rest ELSE values[1]

\* int(x): the integral part, truncated toward zero
IntTrunc(x) == IF x.n >= 0 THEN x.n \div x.d ELSE -((-x.n) \div x.d)
PyInt(x) == R(IntTrunc(x))

(***************************************************************************)
(* Enumerations                                                            *)
(***************************************************************************)
SELL == "SELL"
BUY == "BUY"
HOLD == "HOLD"
TransactionEnum == {SELL, BUY, HOLD}

INCREASE == "INCREASE"
DECREASE == "DECREASE"
STABLE == "STABLE"
UNKNOWN == "UNKNOWN"
PredictionEnum == {INCREASE, DECREASE, STABLE, UNKNOWN}

None == "None"

\* asset_amount=None, in the place of a number: no number has d = 0
NoAmount == [n |-> 0, d |-> 0]

(***************************************************************************)
(* Assets and currencies: identified by name.  BTC allows fractional       *)
(* amounts, AAPL does not; GOLD is an asset no market data exists for.     *)
(***************************************************************************)
AssetNames == {"BTC", "AAPL", "GOLD"}
CurrencyNames == {"USD", "EUR"}
base_currency == "USD"
allow_float_amount(asset) == asset = "BTC"
IsCurrency(k) == k \in CurrencyNames


(***************************************************************************)
(* Bounds of the model                                                     *)
(***************************************************************************)
\* observation dates are the days 1..MaxDate
MaxDate == 4

(***************************************************************************)
(* Sequence helpers (Python list / pandas positional semantics)            *)
(***************************************************************************)
Max(a, b) == IF a > b THEN a ELSE b

\* seq[-n:] : the last n elements, all of them when there are fewer; seq[-0:]
\* is seq[0:], the whole sequence
LastN(seq, n) ==
    IF n = 0 THEN seq ELSE SubSeq(seq, Max(1, Len(seq) - n + 1), Len(seq))

Last(seq) == seq[Len(seq)]

SetMin(S) == CHOOSE x \in S : \A y \in S : x <= y

\* sorted(list(S)) for a set of dates
RECURSIVE SortedSeq(_)
SortedSeq(S) ==
    IF S = {} THEN <<>>
    ELSE LET m == SetMin(S) IN <<m>> \o SortedSeq(S \ {m})

(***************************************************************************)
(* market.py: StockMarketHandler.  A DataFrame is a sequence of rows       *)
(* [date, close] with strictly increasing dates.                           *)
(***************************************************************************)
Index(df) == {df[i].date : i \in DOMAIN df}

\* the number of rows before the first one dated `date` or later
RECURSIVE SearchSortedRightStrict(_, _, _)
SearchSortedRightStrict(df, date, i) ==
    IF i > Len(df) \/ df[i].date >= date THEN i - 1
    ELSE SearchSortedRightStrict(df, date, i + 1)

\* the position that ends the label slice .loc[:date] of a sorted index: the
\* number of rows before the first one dated after `date`
RECURSIVE SearchSortedRight(_, _, _)
SearchSortedRight(df, date, i) ==
    IF i > Len(df) \/ df[i].date > date THEN i - 1
    ELSE SearchSortedRight(df, date, i + 1)

\* a slice that stops before `date`
LocExclusive(df, date) == SubSeq(df, 1, SearchSortedRightStrict(df, date, 1))

\* df.loc[:date]
Loc(df, date) == SubSeq(df, 1, SearchSortedRight(df, date, 1))

\* the dates of each asset in turn, one asset's after another's
RECURSIVE DatesPerAsset(_, _)
DatesPerAsset(smd, assets) ==
    IF assets = {} THEN <<>>
    ELSE LET a == CHOOSE x \in assets : TRUE
         IN  SortedSeq(Index(smd[a])) \o DatesPerAsset(smd, assets \ {a})

DatesUnmerged(smd) == DatesPerAsset(smd, DOMAIN smd)

\* StockMarketHandler._get_unique_dates
get_unique_dates(smd) == SortedSeq(UNION {Index(smd[a]) : a \in DOMAIN smd})

\* one item of StockMarketHandler.stock_market_generator: the data of every
\* asset up to `date`
Snapshot(smd, date) == [asset \in DOMAIN smd |-> Loc(smd[asset], date)]

\* StockMarketHandler.get_asset_price; the result is tagged: a float, None,
\* or the KeyError that the lookup of an asset without market data raises
\* (the lookup comes first in the condition)
get_asset_price(smd, asset, date) ==
    IF asset \notin DOMAIN smd THEN [tag |-> "KeyError"]
    ELSE IF date < smd[asset][1].date THEN [tag |-> None]
    ELSE [tag |-> "float", v |-> R(Last(Loc(smd[asset], date)).close)]

(***************************************************************************)
(* transaction.py: Wallet.  amounts is a function from asset and currency  *)
(* names to rationals.                                                     *)
(***************************************************************************)
\* Wallet.__post_init__
WalletPostInit(amounts) ==
    IF base_currency \in DOMAIN amounts THEN amounts
    ELSE [k \in DOMAIN amounts \cup {base_currency} |->
            IF k = base_currency THEN R(0) ELSE amounts[k]]

\* the body of Wallet.update_wallet after its check, with the currency's
\* entry moved the same way as the asset's
AppliedSameSign(amounts, t) ==
    LET currency_amount == RMul(t.asset_amount, t.asset_price)
    IN  IF t.transaction_type = SELL
          THEN [amounts EXCEPT ![t.asset] = RSub(@, t.asset_amount),
                               ![base_currency] = RSub(@, currency_amount)]
        ELSE IF t.transaction_type = BUY
          THEN [amounts EXCEPT ![t.asset] = RAdd(@, t.asset_amount),
                               ![base_currency] = RAdd(@, currency_amount)]
        ELSE amounts

\* the body of Wallet.update_wallet after its check: the amounts it leaves
Applied(amounts, t) ==
    LET currency_amount == RMul(t.asset_amount, t.asset_price)
    IN  IF t.transaction_type = SELL
          THEN [amounts EXCEPT ![t.asset] = RSub(@, t.asset_amount),
                               ![base_currency] = RAdd(@, currency_amount)]
        ELSE IF t.transaction_type = BUY
          THEN [amounts EXCEPT ![t.asset] = RAdd(@, t.asset_amount),
                               ![base_currency] = RSub(@, currency_amount)]
        ELSE amounts

\* update_wallet with its check made after the currency's entry is changed
UpdateWalletLateCheck(amounts, t) ==
    LET currency_amount == RMul(t.asset_amount, t.asset_price)
    IN  IF t.asset \notin DOMAIN amounts
          THEN [raised |-> "ValueError",
                amounts |-> [amounts EXCEPT ![base_currency] =
                               IF t.transaction_type = SELL
                                 THEN RAdd(@, currency_amount)
                               ELSE RSub(@, currency_amount)]]
        ELSE [raised |-> None, amounts |-> Applied(amounts, t)]

\* Wallet.update_wallet: the exception it raises, or None, and the amounts it
\* leaves
update_wallet(amounts, t) ==
    IF t.asset \notin DOMAIN amounts
      THEN [raised |-> "ValueError", amounts |-> amounts]
    ELSE [raised |-> None, amounts |-> Applied(amounts, t)]

(***************************************************************************)
(* transaction.py: TransactionTriggerByRepeatedPredictions                 *)
(***************************************************************************)
\* a trigger that holds until the history has `repetitions` entries
EvaluateStrictLength(repetitions, prediction_history) ==
    LET last_predictions == LastN(prediction_history, repetitions)
    IN  IF Len(prediction_history) < repetitions THEN HOLD
        ELSE IF \A i \in DOMAIN last_predictions : last_predictions[i] = INCREASE
          THEN BUY
        ELSE IF \A i \in DOMAIN last_predictions : last_predictions[i] = DECREASE
          THEN SELL
        ELSE HOLD

evaluate_predictions(repetitions, prediction_history) ==
    LET last_predictions == LastN(prediction_history, repetitions)
    IN  IF \A i \in DOMAIN last_predictions : last_predictions[i] = INCREASE
          THEN BUY
        ELSE IF \A i \in DOMAIN last_predictions : last_predictions[i] = DECREASE
          THEN SELL
        ELSE HOLD

(***************************************************************************)
(* transaction.py: the quantity managers.  A manager is a record           *)
(* [kind, percentage] or [kind, fixed_amount]; it sizes against the        *)
(* amounts of the wallet it was built with, here the simulation's wallet.  *)
(***************************************************************************)
ByWalletPercentage(p) == [kind |-> "percentage", percentage |-> p]
ByFixedAmount(f) == [kind |-> "fixed", fixed_amount |-> f]

\* the SELL branch reads amounts[asset]: a KeyError without that entry
ComputeAssetAmountRaises(amounts, t) ==
    t.transaction_type = SELL /\ t.asset \notin DOMAIN amounts

\* TransactionQuantityManagerByWalletPercentage.compute_asset_amount
PercentageAmount(percentage, amounts, t) ==
    LET asset_amount ==
          IF t.transaction_type = BUY
            THEN RDiv(RMul(amounts[base_currency], percentage), t.asset_price)
          ELSE IF t.transaction_type = SELL
            THEN RMul(amounts[t.asset], percentage)
          ELSE R(0)
    IN  IF ~allow_float_amount(t.asset) THEN PyInt(asset_amount)
        ELSE asset_amount

\* a fixed amount used as configured, whatever the asset
FixedAmountUntruncated(configured, amounts, t) ==
    IF t.transaction_type = BUY
      THEN RDiv(RMin(amounts[base_currency], configured), t.asset_price)
    ELSE IF t.transaction_type = SELL
      THEN RMin(amounts[t.asset], configured)
    ELSE R(0)

\* TransactionQuantityManagerByFixedAmount.compute_asset_amount
FixedAmount(configured, amounts, t) ==
    LET fixed_amount ==
          IF ~allow_float_amount(t.asset) THEN PyInt(configured)
          ELSE configured
    IN  IF t.transaction_type = BUY
          THEN RDiv(RMin(amounts[base_currency], fixed_amount), t.asset_price)
        ELSE IF t.transaction_type = SELL
          THEN RMin(amounts[t.asset], fixed_amount)
        ELSE R(0)

compute_asset_amount(manager, amounts, t) ==
    IF manager.kind = "percentage"
      THEN PercentageAmount(manager.percentage, amounts, t)
    ELSE FixedAmount(manager.fixed_amount, amounts, t)

(***************************************************************************)
(* trading/algorithm.py.  An algorithm is a record [kind, window_size].    *)
(***************************************************************************)
SteadyTrendAlgorithm(w) == [kind |-> "steady", window_size |-> w]
MajorityTrendAlgorithm(w) == [kind |-> "majority", window_size |-> w]
RandomAlgorithm == [kind |-> "random", window_size |-> 0]

\* stock_market_data["Close"].iloc[-window_size:]
Window(df, window_size) == LastN([i \in DOMAIN df |-> df[i].close], window_size)

\* a steady trend computed on the rows there are, without the check of their
\* number
SteadyTrendNoWarmUp(window_size, df) ==
    LET prices == Window(df, window_size)
    IN  IF \A i \in 1..(Len(prices) - 1) : prices[i] < prices[i + 1]
          THEN INCREASE
        ELSE IF \A i \in 1..(Len(prices) - 1) : prices[i] > prices[i + 1]
          THEN DECREASE
        ELSE STABLE

\* a steady trend that takes equal prices for a rise, and for a fall
SteadyTrendNotStrict(window_size, df) ==
    IF Len(df) < window_size THEN UNKNOWN
    ELSE LET prices == Window(df, window_size)
         IN  IF \A i \in 1..(window_size - 1) : prices[i] <= prices[i + 1]
               THEN INCREASE
             ELSE IF \A i \in 1..(window_size - 1) : prices[i] >= prices[i + 1]
               THEN DECREASE
             ELSE STABLE

\* SteadyTrendAlgorithm.make_prediction
SteadyTrend(window_size, df) ==
    IF Len(df) < window_size THEN UNKNOWN
    ELSE LET prices == Window(df, window_size)
         IN  IF \A i \in 1..(window_size - 1) : prices[i] < prices[i + 1]
               THEN INCREASE
             ELSE IF \A i \in 1..(window_size - 1) : prices[i] > prices[i + 1]
               THEN DECREASE
             ELSE STABLE

\* a majority in which a tie counts for the rise
MajorityTrendTieRises(window_size, df) ==
    IF Len(df) < window_size THEN UNKNOWN
    ELSE LET prices == Window(df, window_size)
             increases ==
               Cardinality({i \in 1..(window_size - 1) : prices[i] < prices[i + 1]})
             decreases ==
               Cardinality({i \in 1..(window_size - 1) : prices[i] > prices[i + 1]})
         IN  IF increases >= decreases THEN INCREASE ELSE DECREASE

\* MajorityTrendAlgorithm.make_prediction
MajorityTrend(window_size, df) ==
    IF Len(df) < window_size THEN UNKNOWN
    ELSE LET prices == Window(df, window_size)
             increases ==
               Cardinality({i \in 1..(window_size - 1) : prices[i] < prices[i + 1]})
             decreases ==
               Cardinality({i \in 1..(window_size - 1) : prices[i] > prices[i + 1]})
         IN  IF increases > decreases THEN INCREASE
             ELSE IF decreases > increases THEN DECREASE
             ELSE STABLE

\* predictions where the steady trend may also come out STABLE at random
MakePredictionUnseeded(algorithm, df) ==
    IF algorithm.kind = "steady"
      THEN {SteadyTrend(algorithm.window_size, df), STABLE}
    ELSE IF algorithm.kind = "majority"
      THEN {MajorityTrend(algorithm.window_size, df)}
    ELSE {INCREASE, DECREASE, STABLE}

\* make_prediction: the set of predictions a call can return (one, unless the
\* algorithm draws at random)
make_prediction(algorithm, df) ==
    IF algorithm.kind = "steady"
      THEN {SteadyTrend(algorithm.window_size, df)}
    ELSE IF algorithm.kind = "majority"
      THEN {MajorityTrend(algorithm.window_size, df)}
    ELSE {INCREASE, DECREASE, STABLE}

(***************************************************************************)
(* strategy.py: AutomatedStrategy, a record of its constructor arguments.  *)
(* Its predictions list is state of the run.                               *)
(***************************************************************************)
AutomatedStrategy(algorithm, asset, priority, repetitions, buy, sell, name) ==
    [trading_algorithm |-> algorithm, trading_asset |-> asset,
     priority |-> priority, repetitions |-> repetitions,
     buy_transaction_quantity_manager |-> buy,
     sell_transaction_quantity_manager |-> sell, name |-> name]

\* a transaction quoted at the first close of the data, not at the last
TransactionDTOFirstClose(strategy, transaction_type, df) ==
    [transaction_type |-> transaction_type, asset |-> strategy.trading_asset,
     currency |-> base_currency, asset_price |-> R(df[1].close),
     transaction_date |-> Last(df).date, strategy_name |-> strategy.name,
     asset_amount |-> NoAmount]

\* the TransactionDTO make_transaction builds, before its amount is computed
TransactionDTO(strategy, transaction_type, df) ==
    [transaction_type |-> transaction_type, asset |-> strategy.trading_asset,
     currency |-> base_currency, asset_price |-> R(Last(df).close),
     transaction_date |-> Last(df).date, strategy_name |-> strategy.name,
     asset_amount |-> NoAmount]

QuantityManagerFor(strategy, transaction_type) ==
    IF transaction_type = BUY THEN strategy.buy_transaction_quantity_manager
    ELSE strategy.sell_transaction_quantity_manager

\* the TransactionDTO make_transaction returns for a BUY or a SELL
SizedTransaction(strategy, transaction_type, df, amounts) ==
    LET t == TransactionDTO(strategy, transaction_type, df)
    IN  [t EXCEPT !.asset_amount =
           compute_asset_amount(QuantityManagerFor(strategy, transaction_type),
                                amounts, t)]

\* AutomatedStrategy.make_transaction, called with the data `df`, by a strategy
\* whose predictions are `log` and whose managers size against `amounts`: the
\* outcomes of the call, one for each prediction the algorithm can return.
\* An outcome is the predictions the call leaves, the exception it raises or
\* None, and the transaction it returns or None.
make_transaction(strategy, log, df, amounts) ==
    {LET predictions_after == Append(log, prediction)
         transaction_type ==
           evaluate_predictions(strategy.repetitions, predictions_after)
     IN  IF transaction_type = HOLD
           THEN [predictions |-> predictions_after, raised |-> None,
                 returned |-> None]
         ELSE IF Len(df) = 0
           \* stock_market_data["Close"].iloc[-1] of no rows
           THEN [predictions |-> predictions_after, raised |-> "IndexError",
                 returned |-> None]
         ELSE IF ComputeAssetAmountRaises(amounts,
                    TransactionDTO(strategy, transaction_type, df))
           THEN [predictions |-> predictions_after, raised |-> "KeyError",
                 returned |-> None]
         ELSE [predictions |-> predictions_after, raised |-> None,
               returned |-> "TransactionDTO",
               transaction_dto |->
                 SizedTransaction(strategy, transaction_type, df, amounts)] :
       prediction \in make_prediction(strategy.trading_algorithm, df)}

(***************************************************************************)
(* simulation.py: OnlineSimulation                                         *)
(***************************************************************************)
\* an order that asks the first strategy at every position
FirstStrategyRepeated(strats) == [i \in 1..Len(strats) |-> 1]

\* sorted(self.strategies, key=lambda s: s.priority), as the registration
\* indexes of the strategies: a stable sort, here by insertion
RECURSIVE InsertByPriority(_, _, _)
InsertByPriority(order, k, strats) ==
    IF order = <<>> THEN <<k>>
    ELSE IF strats[Last(order)].priority <= strats[k].priority
      THEN Append(order, k)
    ELSE Append(InsertByPriority(SubSeq(order, 1, Len(order) - 1), k, strats),
                Last(order))

RECURSIVE SortPrefix(_, _)
SortPrefix(strats, n) ==
    IF n = 0 THEN <<>>
    ELSE InsertByPriority(SortPrefix(strats, n - 1), n, strats)

\* the strategies as registered, unsorted
RegistrationOrder(strats) == [i \in 1..Len(strats) |-> i]

sorted_strategies(strats) == SortPrefix(strats, Len(strats))

\* the asset keys of a wallet, the entries _get_wallet_balance prices
WalletAssets(amounts) == {k \in DOMAIN amounts : ~IsCurrency(k)}

\* _get_wallet_balance raises: the price lookup of some asset of the wallet does
WalletBalanceRaises(smd, amounts, date) ==
    \E k \in WalletAssets(amounts) : get_asset_price(smd, k, date).tag = "KeyError"

RECURSIVE SumAssets(_, _, _, _)
SumAssets(smd, amounts, date, keys) ==
    IF keys = {} THEN R(0)
    ELSE LET k == CHOOSE x \in keys : TRUE
             asset_price == get_asset_price(smd, k, date)
             rest == SumAssets(smd, amounts, date, keys \ {k})
         IN  IF asset_price.tag = "float"
               THEN RAdd(RMul(asset_price.v, amounts[k]), rest)
             ELSE rest

\* OnlineSimulation._get_wallet_balance when it does not raise
get_wallet_balance(smd, amounts, date) ==
    RAdd(SumAssets(smd, amounts, date, WalletAssets(amounts)),
         amounts[base_currency])

(***************************************************************************)
(* report.py: Report, built from a list of WalletUpdate                    *)
(***************************************************************************)
\* Report.__init__
balance_history(wallet_updates) ==
    [i \in DOMAIN wallet_updates |-> wallet_updates[i].balance]
transaction_history(wallet_updates) ==
    [i \in DOMAIN wallet_updates |-> wallet_updates[i].transaction_dto.transaction_type]

\* sum([t == transaction_type for t in transaction_history])
CountOf(transaction_type, types) ==
    Cardinality({i \in DOMAIN types : types[i] = transaction_type})

\* a report whose profits and return are measured from the final balance
ReportFromFinal(wallet_updates) ==
    LET balances == balance_history(wallet_updates)
        types == transaction_history(wallet_updates)
    IN  IF Len(balances) = 0 THEN {[raised |-> "IndexError"]}
        ELSE LET initial_balance == Last(balances)
                 final_balance == balances[1]
             IN  {[raised |-> None,
                   roi |-> IF initial_balance.n = 0 THEN NoAmount
                           ELSE RDiv(RSub(final_balance, initial_balance),
                                     initial_balance),
                   net_profit |-> RSub(final_balance, initial_balance),
                   max_profit |-> RSub(RMaxOf(balances), initial_balance),
                   max_loss |-> RSub(RMinOf(balances), initial_balance),
                   total_transactions |-> Len(types),
                   total_buy_transactions |-> CountOf(BUY, types),
                   total_sell_transactions |-> CountOf(SELL, types)]}

\* Report(wallet_updates).generate_report(): the outcomes of the call, an
\* exception or the metrics.  balance_history[0] of an empty list raises
\* IndexError.  A division by an initial balance of zero raises
\* ZeroDivisionError for a float and gives inf or nan for a numpy.float64 (a
\* balance that had a price added to it): both outcomes, the value written
\* NoAmount.
generate_report(wallet_updates) ==
    LET balances == balance_history(wallet_updates)
        types == transaction_history(wallet_updates)
    IN  IF Len(balances) = 0 THEN {[raised |-> "IndexError"]}
        ELSE LET initial_balance == balances[1]
                 final_balance == Last(balances)
                 metrics(roi) ==
                   [raised |-> None, roi |-> roi,
                    net_profit |-> RSub(final_balance, initial_balance),
                    max_profit |-> RSub(RMaxOf(balances), initial_balance),
                    max_loss |-> RSub(RMinOf(balances), initial_balance),
                    total_transactions |-> Len(types),
                    total_buy_transactions |-> CountOf(BUY, types),
                    total_sell_transactions |-> CountOf(SELL, types)]
             IN  IF initial_balance.n = 0
                   THEN {[raised |-> "ZeroDivisionError"], metrics(NoAmount)}
                 ELSE {metrics(RDiv(RSub(final_balance, initial_balance),
                                    initial_balance))}

(***************************************************************************)
(* State.  The inputs of a run (market data, strategies, the staleness     *)
(* bound) are fixed at construction.  Everything a run changes is indexed  *)
(* by the run: two runs from the same inputs are compared for determinism. *)
(***************************************************************************)
VARIABLES
    stock_market_dict,                \* StockMarketHandler.stock_market_dict
    strategies,                       \* OnlineSimulation.strategies
    max_transaction_date_difference,  \* OnlineSimulation's staleness bound
    pc,               \* per run: "idle", "running", "completed", "aborted"
    tick,             \* per run: position of current_date in the dates
    pos,              \* per run: position in the sorted strategies
    snapshot,         \* per run: the generator's current stock_market_dict
    wallet,           \* per run: Wallet.amounts
    history,          \* per run: OnlineSimulation.history
    predictions,      \* per run: AutomatedStrategy.predictions, by strategy
    error,            \* per run: the exception that ended the run, or None
    call              \* the last direct call of a component, with its result

inputVars == <<stock_market_dict, strategies, max_transaction_date_difference>>
runVars == <<pc, tick, pos, snapshot, wallet, history, predictions, error>>
vars == <<inputVars, runVars, call>>

Runs == {1, 2}

Dates == get_unique_dates(stock_market_dict)
Order == sorted_strategies(strategies)

current_date(r) == Dates[tick[r]]
CurIndex(r) == Order[pos[r]]
CurStrategy(r) == strategies[CurIndex(r)]
stock_market_data(r) == snapshot[r][CurStrategy(r).trading_asset]
date_difference(r) == current_date(r) - Last(stock_market_data(r)).date

\* a staleness test that also skips a difference equal to the bound
TooOldInclusive(difference, bound) == difference >= bound

\* a staleness test that lets through twice the bound
TooOldDoubled(difference, bound) == difference > 2 * bound

\* the staleness test of run_simulation
TooOld(difference, bound) == difference > bound

\* loops that end before the last date
ContinueEndsEarly(r) ==
    /\ error' = error
    /\ IF pos[r] < Len(strategies)
         THEN /\ pos' = [pos EXCEPT ![r] = @ + 1]
              /\ UNCHANGED <<pc, tick, snapshot>>
       ELSE IF tick[r] < Len(Dates) - 1
         THEN /\ pos' = [pos EXCEPT ![r] = 1]
              /\ tick' = [tick EXCEPT ![r] = @ + 1]
              /\ snapshot' = [snapshot EXCEPT
                                ![r] = Snapshot(stock_market_dict, Dates[tick[r] + 1])]
              /\ pc' = pc
       ELSE /\ pc' = [pc EXCEPT ![r] = "completed"]
            /\ UNCHANGED <<tick, pos, snapshot>>

\* the loops' control: the next strategy, else the next date, else the end
Continue(r) ==
    /\ error' = error
    /\ IF pos[r] < Len(strategies)
         THEN /\ pos' = [pos EXCEPT ![r] = @ + 1]
              /\ UNCHANGED <<pc, tick, snapshot>>
       ELSE IF tick[r] < Len(Dates)
         THEN /\ pos' = [pos EXCEPT ![r] = 1]
              /\ tick' = [tick EXCEPT ![r] = @ + 1]
              /\ snapshot' = [snapshot EXCEPT
                                ![r] = Snapshot(stock_market_dict, Dates[tick[r] + 1])]
              /\ pc' = pc
       ELSE /\ pc' = [pc EXCEPT ![r] = "completed"]
            /\ UNCHANGED <<tick, pos, snapshot>>

Raise(r, exception) ==
    /\ pc' = [pc EXCEPT ![r] = "aborted"]
    /\ error' = [error EXCEPT ![r] = exception]
    /\ UNCHANGED <<tick, pos, snapshot>>

\* the WalletUpdate run_simulation appends; index is the strategy's
\* registration index, kept for reference (a WalletUpdate has no such field)
WalletUpdate(time, amounts, transaction_dto, balance, index) ==
    [time |-> time, wallet_amounts |-> amounts,
     transaction_dto |-> transaction_dto, balance |-> balance, index |-> index]

\* run_simulation is called: the generator yields the first date
RunSimulation(r) ==
    /\ pc[r] = "idle"
    /\ pc' = [pc EXCEPT ![r] = "running"]
    /\ tick' = [tick EXCEPT ![r] = 1]
    /\ pos' = [pos EXCEPT ![r] = 1]
    /\ snapshot' = [snapshot EXCEPT ![r] = Snapshot(stock_market_dict, Dates[1])]
    /\ UNCHANGED <<inputVars, call, wallet, history, predictions, error>>

\* a strategy without data is logged as UNKNOWN
SkipEmptyLogging(r) ==
    /\ pc[r] = "running"
    /\ Len(stock_market_data(r)) = 0
    /\ predictions' = [predictions EXCEPT ![r][CurIndex(r)] = Append(@, UNKNOWN)]
    /\ Continue(r)
    /\ UNCHANGED <<inputVars, call, wallet, history>>

\* len(stock_market_data) == 0: continue
SkipEmpty(r) ==
    /\ pc[r] = "running"
    /\ Len(stock_market_data(r)) = 0
    /\ Continue(r)
    /\ UNCHANGED <<inputVars, call, wallet, history, predictions>>

\* date_difference > max_transaction_date_difference: continue
SkipStale(r) ==
    /\ pc[r] = "running"
    /\ Len(stock_market_data(r)) > 0
    /\ TooOld(date_difference(r), max_transaction_date_difference)
    /\ Continue(r)
    /\ UNCHANGED <<inputVars, call, wallet, history, predictions>>

Evaluated(r) ==
    /\ pc[r] = "running"
    /\ Len(stock_market_data(r)) > 0
    /\ ~TooOld(date_difference(r), max_transaction_date_difference)

LogOf(r) == predictions[r][CurIndex(r)]

Logged(r, prediction) ==
    predictions' = [predictions EXCEPT ![r][CurIndex(r)] = Append(@, prediction)]

Decision(r, prediction) ==
    evaluate_predictions(CurStrategy(r).repetitions, Append(LogOf(r), prediction))

\* a HOLD that is recorded in the history as a transaction without amount
HoldMaterialized(r) ==
    /\ Evaluated(r)
    /\ \E prediction \in make_prediction(CurStrategy(r).trading_algorithm,
                                        stock_market_data(r)) :
         /\ Decision(r, prediction) = HOLD
         /\ Logged(r, prediction)
    /\ history' = [history EXCEPT ![r] = Append(@,
         WalletUpdate(current_date(r), wallet[r],
                      TransactionDTO(CurStrategy(r), HOLD, stock_market_data(r)),
                      get_wallet_balance(stock_market_dict, wallet[r],
                                         current_date(r)),
                      CurIndex(r)))]
    /\ Continue(r)
    /\ UNCHANGED <<inputVars, call, wallet>>

\* a HOLD whose prediction is not kept
HoldUnlogged(r) ==
    /\ Evaluated(r)
    /\ \E prediction \in make_prediction(CurStrategy(r).trading_algorithm,
                                        stock_market_data(r)) :
         Decision(r, prediction) = HOLD
    /\ Continue(r)
    /\ UNCHANGED <<inputVars, call, wallet, history, predictions>>

\* make_transaction returns None (HOLD): continue
Hold(r) ==
    /\ Evaluated(r)
    /\ \E prediction \in make_prediction(CurStrategy(r).trading_algorithm,
                                        stock_market_data(r)) :
         /\ Decision(r, prediction) = HOLD
         /\ Logged(r, prediction)
    /\ Continue(r)
    /\ UNCHANGED <<inputVars, call, wallet, history>>

\* make_transaction raises in the quantity manager: a SELL of an asset the
\* wallet has no entry for
SizingFails(r) ==
    /\ Evaluated(r)
    /\ \E prediction \in make_prediction(CurStrategy(r).trading_algorithm,
                                        stock_market_data(r)) :
         /\ Decision(r, prediction) = SELL
         /\ ComputeAssetAmountRaises(wallet[r],
               TransactionDTO(CurStrategy(r), SELL, stock_market_data(r)))
         /\ Logged(r, prediction)
    /\ Raise(r, "KeyError")
    /\ UNCHANGED <<inputVars, call, wallet, history>>

\* update_wallet raises: a BUY of an asset the wallet has no entry for
UpdateWalletFails(r) ==
    /\ Evaluated(r)
    /\ \E prediction \in make_prediction(CurStrategy(r).trading_algorithm,
                                        stock_market_data(r)) :
         /\ Decision(r, prediction) = BUY
         /\ update_wallet(wallet[r],
                          SizedTransaction(CurStrategy(r), BUY, stock_market_data(r),
                                           wallet[r])).raised = "ValueError"
         /\ Logged(r, prediction)
    /\ Raise(r, "ValueError")
    /\ UNCHANGED <<inputVars, call, wallet, history>>

\* the transaction is applied, then _get_wallet_balance raises on an asset of
\* the wallet that has no market data: no WalletUpdate is appended
BalanceFails(r) ==
    /\ Evaluated(r)
    /\ \E prediction \in make_prediction(CurStrategy(r).trading_algorithm,
                                        stock_market_data(r)) :
         LET transaction_type == Decision(r, prediction)
         IN  /\ transaction_type # HOLD
             /\ CurStrategy(r).trading_asset \in DOMAIN wallet[r]
             /\ WalletBalanceRaises(stock_market_dict, wallet[r], current_date(r))
             /\ Logged(r, prediction)
             /\ wallet' = [wallet EXCEPT ![r] =
                  update_wallet(@, SizedTransaction(CurStrategy(r), transaction_type,
                                                    stock_market_data(r), @)).amounts]
    /\ Raise(r, "KeyError")
    /\ UNCHANGED <<inputVars, call, history>>

\* a transaction sized against the amounts the wallet was built with (those
\* of the run that is not stepped), not against the wallet as it is
TransactOnCopy(r) ==
    /\ Evaluated(r)
    /\ \E prediction \in make_prediction(CurStrategy(r).trading_algorithm,
                                        stock_market_data(r)) :
         LET transaction_type == Decision(r, prediction)
             built_with == wallet[CHOOSE other \in Runs : other # r]
             transaction == SizedTransaction(CurStrategy(r), transaction_type,
                                             stock_market_data(r), built_with)
             amounts == update_wallet(wallet[r], transaction).amounts
         IN  /\ transaction_type # HOLD
             /\ CurStrategy(r).trading_asset \in DOMAIN wallet[r]
             /\ ~WalletBalanceRaises(stock_market_dict, wallet[r], current_date(r))
             /\ Logged(r, prediction)
             /\ wallet' = [wallet EXCEPT ![r] = amounts]
             /\ history' = [history EXCEPT ![r] = Append(@,
                  WalletUpdate(current_date(r), amounts, transaction,
                               get_wallet_balance(stock_market_dict, amounts,
                                                  current_date(r)),
                               CurIndex(r)))]
    /\ Continue(r)
    /\ UNCHANGED <<inputVars, call>>

\* a sizing that writes the wallet: the percentage manager's
\* `currency_amount *= self.percentage` done on the wallet's own entry
TransactSizingWrites(r) ==
    /\ Evaluated(r)
    /\ \E prediction \in make_prediction(CurStrategy(r).trading_algorithm,
                                        stock_market_data(r)) :
         LET transaction_type == Decision(r, prediction)
             manager == QuantityManagerFor(CurStrategy(r), transaction_type)
             transaction == SizedTransaction(CurStrategy(r), transaction_type,
                                             stock_market_data(r), wallet[r])
             written ==
               IF transaction_type = BUY /\ manager.kind = "percentage"
                 THEN [wallet[r] EXCEPT
                         ![base_currency] = RMul(@, manager.percentage)]
               ELSE wallet[r]
             amounts == update_wallet(written, transaction).amounts
         IN  /\ transaction_type # HOLD
             /\ CurStrategy(r).trading_asset \in DOMAIN wallet[r]
             /\ ~WalletBalanceRaises(stock_market_dict, wallet[r], current_date(r))
             /\ Logged(r, prediction)
             /\ wallet' = [wallet EXCEPT ![r] = amounts]
             /\ history' = [history EXCEPT ![r] = Append(@,
                  WalletUpdate(current_date(r), amounts, transaction,
                               get_wallet_balance(stock_market_dict, amounts,
                                                  current_date(r)),
                               CurIndex(r)))]
    /\ Continue(r)
    /\ UNCHANGED <<inputVars, call>>

\* the transaction is applied and its WalletUpdate appended
Transact(r) ==
    /\ Evaluated(r)
    /\ \E prediction \in make_prediction(CurStrategy(r).trading_algorithm,
                                        stock_market_data(r)) :
         LET transaction_type == Decision(r, prediction)
             transaction == SizedTransaction(CurStrategy(r), transaction_type,
                                             stock_market_data(r), wallet[r])
             amounts == update_wallet(wallet[r], transaction).amounts
         IN  /\ transaction_type # HOLD
             /\ CurStrategy(r).trading_asset \in DOMAIN wallet[r]
             /\ ~WalletBalanceRaises(stock_market_dict, wallet[r], current_date(r))
             /\ Logged(r, prediction)
             /\ wallet' = [wallet EXCEPT ![r] = amounts]
             /\ history' = [history EXCEPT ![r] = Append(@,
                  WalletUpdate(current_date(r), amounts, transaction,
                               get_wallet_balance(stock_market_dict, amounts,
                                                  current_date(r)),
                               CurIndex(r)))]
    /\ Continue(r)
    /\ UNCHANGED <<inputVars, call>>

Step(r) ==
    \/ RunSimulation(r)
    \/ SkipEmpty(r)
    \/ SkipStale(r)
    \/ Hold(r)
    \/ SizingFails(r)
    \/ UpdateWalletFails(r)
    \/ BalanceFails(r)
    \/ Transact(r)

(***************************************************************************)
(* The inputs of the runs that are checked                                 *)
(***************************************************************************)
\* closing prices, by date: rising 10, 11, 12, 13, ..; falling; alternating
Close(pattern, date) ==
    IF pattern = "up" THEN 9 + date
    ELSE IF pattern = "down" THEN 20 - date
    ELSE IF date % 2 = 1 THEN 10 ELSE 12

DataFrame(dates, pattern) ==
    LET index == SortedSeq(dates)
    IN  [i \in 1..Len(index) |->
           [date |-> index[i], close |-> Close(pattern, index[i])]]

AllDates == 1..MaxDate
Intervals == {lo..hi : lo \in AllDates, hi \in AllDates} \ {{}}

\* BTC is observed on any dates, AAPL on an interval of dates
Markets ==
    {[BTC |-> DataFrame(btc, pattern), AAPL |-> DataFrame(aapl, "up")] :
        btc \in (SUBSET AllDates) \ {{}}, pattern \in {"up", "down", "zig"},
        aapl \in Intervals}

\* both assets observed on every date
DenseMarkets ==
    {[BTC |-> DataFrame(AllDates, pattern), AAPL |-> DataFrame(AllDates, other)] :
        pattern \in {"up", "down", "zig"}, other \in {"up", "down"}}

\* both assets observed on every date, at rising prices
RisingMarket ==
    [BTC |-> DataFrame(AllDates, "up"), AAPL |-> DataFrame(AllDates, "up")]

\* AAPL observed on every date
ClockedMarkets ==
    {[BTC |-> DataFrame(btc, pattern), AAPL |-> DataFrame(AllDates, "up")] :
        btc \in (SUBSET AllDates) \ {{}}, pattern \in {"up", "down", "zig"}}

FixedSetups ==
    {<<AutomatedStrategy(SteadyTrendAlgorithm(3), asset, 1, 1,
                         ByFixedAmount(R(100)), ByFixedAmount(R(100)), "fixed")>> :
        asset \in {"BTC", "AAPL"}}

CompetingSetups ==
    {<<AutomatedStrategy(SteadyTrendAlgorithm(2), "BTC", p1, 1,
                         ByWalletPercentage(R(1)), ByWalletPercentage(R(1)),
                         "first"),
       AutomatedStrategy(MajorityTrendAlgorithm(2), asset, p2, 1,
                         ByWalletPercentage(R(1)), ByFixedAmount(Frac(5, 2)),
                         "second")>> :
        p1 \in {1, 2}, p2 \in {1, 2}, asset \in {"BTC", "AAPL"}}

MixedSetups ==
    {<<AutomatedStrategy(MajorityTrendAlgorithm(3), "BTC", 2, 2,
                         ByWalletPercentage(Frac(1, 2)),
                         ByWalletPercentage(Frac(1, 2)), "majority"),
       AutomatedStrategy(SteadyTrendAlgorithm(1), "AAPL", 1, 2,
                         ByFixedAmount(Frac(51, 2)), ByWalletPercentage(Frac(1, 2)),
                         "steady")>>}

RandomSetups ==
    {<<AutomatedStrategy(RandomAlgorithm, "BTC", 1, 1,
                         ByFixedAmount(R(100)), ByFixedAmount(R(1)), "random")>>}

DeterministicSetups == FixedSetups \cup CompetingSetups \cup MixedSetups

DefaultWallet == [USD |-> R(1000), BTC |-> R(0), AAPL |-> R(0)]

\* the amounts a Wallet is built with: without the base currency; without
\* AAPL and with a second currency; with an asset that has no market data
WalletAmounts ==
    {DefaultWallet,
     [BTC |-> R(5), AAPL |-> R(7)],
     [USD |-> R(1000), EUR |-> R(50), BTC |-> Frac(5, 2)],
     [USD |-> R(1000), BTC |-> R(1), AAPL |-> R(2), GOLD |-> R(3)]}

\* the default of max_transaction_date_difference
DefaultMaxDifference == 2

Input(market, setup, bound, amounts) ==
    [market |-> market, strategies |-> setup, bound |-> bound, amounts |-> amounts]

\* one asset observed on every date at rising prices, one strategy on it, and
\* a wallet of 1000 of the base currency and none of the asset
SingleAssetInputs ==
    {Input([BTC |-> DataFrame(AllDates, "up")],
           <<AutomatedStrategy(SteadyTrendAlgorithm(3), "BTC", 1, 1,
                               ByFixedAmount(R(100)), ByFixedAmount(R(100)),
                               "fixed")>>,
           DefaultMaxDifference, [USD |-> R(1000), BTC |-> R(0)]),
     Input([AAPL |-> DataFrame(AllDates, "up")],
           <<AutomatedStrategy(SteadyTrendAlgorithm(3), "AAPL", 1, 1,
                               ByFixedAmount(R(100)), ByFixedAmount(R(100)),
                               "fixed")>>,
           DefaultMaxDifference, [USD |-> R(1000), AAPL |-> R(0)])}

\* every market with the default wallet; every wallet on the dense markets
Inputs ==
    SingleAssetInputs
    \cup
    {Input(m, s, b, DefaultWallet) :
        m \in Markets, s \in DeterministicSetups, b \in {1, DefaultMaxDifference}}
    \cup
    {Input(m, s, DefaultMaxDifference, a) :
        m \in DenseMarkets, s \in DeterministicSetups \cup RandomSetups,
        a \in WalletAmounts}

\* markets in which neither asset is observed on every date
SparseMarkets ==
    {[BTC |-> DataFrame(btc, pattern), AAPL |-> DataFrame(aapl, "up")] :
        btc \in {{1, MaxDate}, {3, MaxDate}, {2}}, pattern \in {"up", "down"},
        aapl \in {1..2, 2..3}}

\* the inputs of the runs checked for their ending
FairInputs ==
    SingleAssetInputs
    \cup
    {Input(m, s, 1, DefaultWallet) : m \in SparseMarkets, s \in DeterministicSetups}
    \cup
    {Input(m, s, DefaultMaxDifference, a) :
        m \in DenseMarkets, s \in DeterministicSetups \cup RandomSetups,
        a \in WalletAmounts}

\* the inputs of the runs compared with each other: one has a random algorithm
PairInputs ==
    {Input(m, s, 1, DefaultWallet) :
        m \in ClockedMarkets, s \in DeterministicSetups}
    \cup
    {Input(m, s, DefaultMaxDifference, a) :
        m \in DenseMarkets, s \in DeterministicSetups, a \in WalletAmounts}
    \cup
    {Input(RisingMarket, s, DefaultMaxDifference, DefaultWallet) :
        s \in RandomSetups}

InitWith(inputs) ==
    \E in \in inputs :
        /\ stock_market_dict = in.market
        /\ strategies = in.strategies
        /\ max_transaction_date_difference = in.bound
        /\ wallet = [r \in Runs |-> WalletPostInit(in.amounts)]
        /\ history = [r \in Runs |-> <<>>]
        /\ predictions = [r \in Runs |-> [i \in 1..Len(in.strategies) |-> <<>>]]
        /\ pc = [r \in Runs |-> "idle"]
        /\ tick = [r \in Runs |-> 0]
        /\ pos = [r \in Runs |-> 0]
        /\ snapshot = [r \in Runs |-> [a \in DOMAIN in.market |-> <<>>]]
        /\ error = [r \in Runs |-> None]
        /\ call = [op |-> None]

Init == InitWith(Inputs)
Next == Step(1)
Spec == Init /\ [][Next]_vars

\* where the loop of a run is: the date, the strategy, and whether it has ended
control == <<pc, tick, pos>>

\* a step of the loop of run 1, as far as its control goes: to some strategy
\* of some date, or to the end
LoopStep ==
    /\ pc[1] = "running"
    /\ \E t \in 1..Len(Dates), p \in 1..Len(strategies),
          c \in {"running", "completed", "aborted"} :
         /\ tick' = [tick EXCEPT ![1] = t]
         /\ pos' = [pos EXCEPT ![1] = p]
         /\ pc' = [pc EXCEPT ![1] = c]

\* run_simulation is a loop without suspension points, every step of which
\* ends (in continue, in the append to the history or in an exception): a run
\* that has been called does not stay at one strategy of one date for ever
FairInit == InitWith(FairInputs)
FairSpec == FairInit /\ [][Next]_vars /\ WF_control(LoopStep)

\* two runs of the same inputs, interleaved
PairInit == InitWith(PairInputs)
PairNext == \E r \in Runs : Step(r)
PairSpec == PairInit /\ [][PairNext]_vars

(***************************************************************************)
(* Python's float, for one call: a BUY of the whole balance.  A float is   *)
(* an IEEE 754 binary64, m * 2^e with a significand m of Precision bits,   *)
(* and every operation rounds its exact result to the nearest float, ties  *)
(* to the even significand.  Significands exceed TLC's integers: a natural *)
(* is the sequence of its digits to the base Limb, lowest first, without   *)
(* leading zeros.                                                          *)
(***************************************************************************)
Precision == 53
Limb == 32768

RECURSIVE BigOf(_)
BigOf(n) == IF n = 0 THEN <<>> ELSE <<n % Limb>> \o BigOf(n \div Limb)

\* x * c + carry, for a small c
RECURSIVE BigTimes(_, _, _)
BigTimes(x, c, carry) ==
    IF x = <<>> THEN BigOf(carry)
    ELSE LET v == Head(x) * c + carry
         IN  <<v % Limb>> \o BigTimes(Tail(x), c, v \div Limb)

\* quotient and remainder of x by a small c
RECURSIVE BigDivide(_, _)
BigDivide(x, c) ==
    IF x = <<>> THEN [q |-> <<>>, r |-> 0]
    ELSE LET high == BigDivide(Tail(x), c)
             v == high.r * Limb + Head(x)
         IN  [q |-> IF high.q = <<>> /\ v \div c = 0 THEN <<>>
                    ELSE <<v \div c>> \o high.q,
              r |-> v % c]

RECURSIVE BigLess(_, _)
BigLess(x, y) ==
    IF Len(x) # Len(y) THEN Len(x) < Len(y)
    ELSE IF x = <<>> THEN FALSE
    ELSE IF Last(x) # Last(y) THEN Last(x) < Last(y)
    ELSE BigLess(SubSeq(x, 1, Len(x) - 1), SubSeq(y, 1, Len(y) - 1))

RECURSIVE BigSucc(_)
BigSucc(x) ==
    IF x = <<>> THEN <<1>>
    ELSE IF Head(x) + 1 < Limb THEN <<Head(x) + 1>> \o Tail(x)
    ELSE <<0>> \o BigSucc(Tail(x))

\* the value of x - y - borrow for x >= y + borrow, when it is a small number
RECURSIVE BigMinus(_, _, _)
BigMinus(x, y, borrow) ==
    IF x = <<>> THEN 0
    ELSE LET v == Head(x) - (IF y = <<>> THEN 0 ELSE Head(y)) - borrow
             rest == BigMinus(Tail(x), IF y = <<>> THEN <<>> ELSE Tail(y),
                              IF v < 0 THEN 1 ELSE 0)
         IN  (IF v < 0 THEN v + Limb ELSE v) + Limb * rest

\* x * 2^n, ten bits at a time
RECURSIVE BigShift(_, _)
BigShift(x, n) ==
    IF n <= 10 THEN BigTimes(x, 2 ^ n, 0)
    ELSE BigShift(BigTimes(x, 1024, 0), n - 10)

BigPow2(n) == BigShift(<<1>>, n)

\* the bits of x beyond Precision
RECURSIVE ExtraBits(_, _)
ExtraBits(x, n) ==
    IF BigLess(x, BigPow2(Precision + n)) THEN n ELSE ExtraBits(x, n + 1)

\* round to nearest, ties to even: the quotient q, of which a remainder r of
\* the divisor c was left, goes up when r is more than half of c, or is half
\* of it and q is odd
RoundHalfEven(q, r, c) ==
    IF 2 * r > c \/ (2 * r = c /\ Head(q) % 2 = 1) THEN BigSucc(q) ELSE q

\* the float nearest to x * 2^e, x a natural of a few bits more than Precision
FloatRound(x, e) ==
    LET extra == ExtraBits(x, 0)
        division == BigDivide(x, 2 ^ extra)
        m == RoundHalfEven(division.q, division.r, 2 ^ extra)
    IN  IF BigLess(m, BigPow2(Precision)) THEN [m |-> m, e |-> e + extra]
        ELSE [m |-> BigDivide(m, 2).q, e |-> e + extra + 1]

\* the j with 2^j <= a / b < 2^(j + 1), for integers a >= b > 0
RECURSIVE FloorLog2(_, _)
FloorLog2(a, b) == IF 2 * b > a THEN 0 ELSE 1 + FloorLog2(a, 2 * b)

\* float(a) / float(b) for integers a >= b > 0
FloatDivide(a, b) ==
    LET shift == Precision - 1 - FloorLog2(a, b)
        division == BigDivide(BigShift(BigOf(a), shift), b)
    IN  FloatRound(RoundHalfEven(division.q, division.r, b), -shift)

\* x * float(c) for a float x and an integer c > 0
FloatTimes(x, c) == FloatRound(BigTimes(x.m, c, 0), x.e)

\* float(a) - x for an integer a > 0 and a float x with a / 2 <= x <= 2 * a
\* and x.e <= 0: the difference is exact, sign * units * 2^e
FloatMinus(a, x) ==
    LET scaled == BigShift(BigOf(a), -x.e)
    IN  IF BigLess(scaled, x.m)
          THEN [sign |-> -1, units |-> BigMinus(x.m, scaled, 0), e |-> x.e]
        ELSE IF scaled = x.m THEN [sign |-> 0, units |-> 0, e |-> 0]
        ELSE [sign |-> 1, units |-> BigMinus(scaled, x.m, 0), e |-> x.e]

(***************************************************************************)
(* Direct calls of the components, on inputs drawn from bounded sets: the  *)
(* call and what it returned or raised are recorded in `call`.  Each       *)
(* behaviour makes one call, on fresh objects.                             *)
(***************************************************************************)
\* the longest prediction history, and the largest repetitions, of a call
MaxLog == 3
MaxRepetitions == 3
\* the longest list of wallet updates a report is asked of
MaxUpdates == 4

\* the wallets of the runs, and one with more BTC sold than it held
CallWallets ==
    {WalletPostInit(a) :
        a \in WalletAmounts \cup {[USD |-> R(50), BTC |-> Frac(-5, 2), AAPL |-> R(4)]}}

CallPrices == {R(12), Frac(5, 2)}
CallAmounts == {R(0), R(8), Frac(25, 3), R(-2)}

CallManagers ==
    {ByWalletPercentage(p) : p \in {R(0), Frac(1, 3), Frac(1, 2), R(1)}}
    \cup {ByFixedAmount(f) : f \in {R(100), Frac(5, 2), R(3)}}

CallLogs == UNION {[1..n -> PredictionEnum] : n \in 0..MaxLog}

UnsizedTransaction(transaction_type, asset, price) ==
    [transaction_type |-> transaction_type, asset |-> asset,
     currency |-> base_currency, asset_price |-> price, transaction_date |-> 1,
     strategy_name |-> "direct"]

Sized(t, amount) ==
    [transaction_type |-> t.transaction_type, asset |-> t.asset,
     currency |-> t.currency, asset_price |-> t.asset_price,
     transaction_date |-> t.transaction_date, strategy_name |-> t.strategy_name,
     asset_amount |-> amount]

\* wallet.update_wallet(transaction_dto)
CallUpdateWallet ==
    /\ call.op = None
    /\ \E amounts \in CallWallets, transaction_type \in TransactionEnum,
          asset \in AssetNames, price \in CallPrices, amount \in CallAmounts :
         LET t == Sized(UnsizedTransaction(transaction_type, asset, price), amount)
             result == update_wallet(amounts, t)
         IN  call' = [op |-> "update_wallet", before |-> amounts,
                      transaction_dto |-> t, raised |-> result.raised,
                      after |-> result.amounts]
    /\ UNCHANGED <<inputVars, runVars>>

\* manager.compute_asset_amount(transaction_dto), the manager built with a
\* wallet that holds `amounts`
CallComputeAssetAmount ==
    /\ call.op = None
    /\ \E amounts \in CallWallets, manager \in CallManagers,
          transaction_type \in TransactionEnum, asset \in AssetNames,
          price \in CallPrices :
         LET t == UnsizedTransaction(transaction_type, asset, price)
         IN  call' = [op |-> "compute_asset_amount", amounts |-> amounts,
                      manager |-> manager, transaction_dto |-> t,
                      raised |-> IF ComputeAssetAmountRaises(amounts, t)
                                   THEN "KeyError" ELSE None,
                      asset_amount |->
                        IF ComputeAssetAmountRaises(amounts, t) THEN R(0)
                        ELSE compute_asset_amount(manager, amounts, t)]
    /\ UNCHANGED <<inputVars, runVars>>

\* TransactionTriggerByRepeatedPredictions(repetitions).evaluate_predictions(log)
CallEvaluatePredictions ==
    /\ call.op = None
    /\ \E repetitions \in 1..MaxRepetitions, log \in CallLogs :
         call' = [op |-> "evaluate_predictions", repetitions |-> repetitions,
                  prediction_history |-> log,
                  result |-> evaluate_predictions(repetitions, log)]
    /\ UNCHANGED <<inputVars, runVars>>

\* market data with BTC observed on some dates only
CallMarkets ==
    {RisingMarket,
     [BTC |-> DataFrame({2, 4}, "up"), AAPL |-> DataFrame(AllDates, "down")]}

CallDates == 0..(MaxDate + 1)

\* StockMarketHandler(smd).get_asset_price(asset, date)
CallGetAssetPrice ==
    /\ call.op = None
    /\ \E smd \in CallMarkets, asset \in AssetNames, date \in CallDates :
         call' = [op |-> "get_asset_price", stock_market_dict |-> smd,
                  asset |-> asset, date |-> date,
                  result |-> get_asset_price(smd, asset, date)]
    /\ UNCHANGED <<inputVars, runVars>>

\* OnlineSimulation(StockMarketHandler(smd), .., Wallet(amounts))
\*   ._get_wallet_balance(date)
CallGetWalletBalance ==
    /\ call.op = None
    /\ \E smd \in CallMarkets, amounts \in CallWallets, date \in CallDates :
         call' = [op |-> "get_wallet_balance", stock_market_dict |-> smd,
                  amounts |-> amounts, date |-> date,
                  raised |-> IF WalletBalanceRaises(smd, amounts, date)
                               THEN "KeyError" ELSE None,
                  balance |-> IF WalletBalanceRaises(smd, amounts, date)
                                THEN NoAmount
                              ELSE get_wallet_balance(smd, amounts, date)]
    /\ UNCHANGED <<inputVars, runVars>>

\* the strategies of the runs
CallStrategies ==
    UNION {{setup[i] : i \in DOMAIN setup} :
             setup \in DeterministicSetups \cup RandomSetups}

CallShortLogs == UNION {[1..n -> PredictionEnum] : n \in 0..2}

\* strategy.make_transaction(df, wallet), df the rows of the strategy's asset
\* up to a date (none, before the first), by a strategy that has made the
\* predictions `log`
CallMakeTransaction ==
    /\ call.op = None
    /\ \E strategy \in CallStrategies, log \in CallShortLogs, smd \in CallMarkets,
          date \in CallDates, amounts \in CallWallets :
         LET df == Loc(smd[strategy.trading_asset], date)
         IN  \E outcome \in make_transaction(strategy, log, df, amounts) :
               call' = [op |-> "make_transaction", strategy |-> strategy,
                        log |-> log, stock_market_data |-> df,
                        amounts |-> amounts, outcome |-> outcome]
    /\ UNCHANGED <<inputVars, runVars>>

CallBalances == {R(0), R(950), R(1000), R(1100), R(1200)}

\* the wallet updates of a report: Report reads their balance and the type of
\* their transaction
CallUpdates ==
    UNION {[1..n -> {[balance |-> b, transaction_dto |-> [transaction_type |-> t]] :
                       b \in CallBalances, t \in {BUY, SELL}}] :
             n \in 0..MaxUpdates}

\* Report(wallet_updates).generate_report()
CallGenerateReport ==
    /\ call.op = None
    /\ \E wallet_updates \in CallUpdates :
         \E report \in generate_report(wallet_updates) :
           call' = [op |-> "generate_report", wallet_updates |-> wallet_updates,
                    report |-> report]
    /\ UNCHANGED <<inputVars, runVars>>

\* the base currency of the wallet, and the price, of a BUY computed in floats
FloatBalances == {50, 100, 900, 1000}
FloatPrices == 10..19

\* manager.compute_asset_amount(t) and then wallet.update_wallet(t), in floats:
\* t a BUY at `price` of an asset with float amounts, the manager a
\* TransactionQuantityManagerByWalletPercentage of percentage 1.0 built with
\* the wallet, which holds `balance` of the base currency.  balance * 1.0 is
\* exact; the division, the product and the subtraction are rounded.
CallBuyInFloat ==
    /\ call.op = None
    /\ \E balance \in FloatBalances, price \in FloatPrices :
         LET asset_amount == FloatDivide(balance, price)
             currency_amount == FloatTimes(asset_amount, price)
         IN  call' = [op |-> "buy_in_float", balance |-> balance, price |-> price,
                      asset_amount |-> asset_amount,
                      currency_amount |-> currency_amount,
                      currency_after |-> FloatMinus(balance, currency_amount)]
    /\ UNCHANGED <<inputVars, runVars>>

\* the largest window size, and the most rows, of a call of an algorithm
MaxWindow == 3
MaxRows == 4

CallAlgorithms ==
    {SteadyTrendAlgorithm(w) : w \in 1..MaxWindow}
    \cup {MajorityTrendAlgorithm(w) : w \in 1..MaxWindow}
    \cup {RandomAlgorithm}

\* data of up to MaxRows consecutive dates, of any closes out of three
CallDataFrames ==
    UNION {{[i \in 1..n |-> [date |-> i, close |-> closes[i]]] :
              closes \in [1..n -> {10, 11, 12}]} : n \in 0..MaxRows}

\* algorithm.make_prediction(stock_market_data)
CallMakePrediction ==
    /\ call.op = None
    /\ \E algorithm \in CallAlgorithms, df \in CallDataFrames :
         \E prediction \in make_prediction(algorithm, df) :
           call' = [op |-> "make_prediction", algorithm |-> algorithm,
                    stock_market_data |-> df, result |-> prediction]
    /\ UNCHANGED <<inputVars, runVars>>

\* no run is made: the simulation stays as constructed
CallInit ==
    InitWith({Input(RisingMarket, s, DefaultMaxDifference, DefaultWallet) :
                s \in RandomSetups})
CallNext ==
    \/ CallUpdateWallet
    \/ CallComputeAssetAmount
    \/ CallEvaluatePredictions
    \/ CallGetAssetPrice
    \/ CallGetWalletBalance
    \/ CallMakeTransaction
    \/ CallGenerateReport
    \/ CallBuyInFloat
    \/ CallMakePrediction
CallSpec == CallInit /\ [][CallNext]_vars

(***************************************************************************)
(* Properties.  Those of a run are stated of run 1.                        *)
(***************************************************************************)
\* the dates on which `asset` is observed, up to `date`
ObservedUpTo(asset, date) == {d \in Index(stock_market_dict[asset]) : d <= date}

SetMax(S) == CHOOSE x \in S : \A y \in S : x >= y

\* C1: while a run is at a date d, the data of every asset handed to the
\* strategies is exactly the rows of that asset dated d or earlier: no row is
\* dated after d, and no row dated d or earlier is missing.
C1_AntiLookAhead ==
    pc[1] = "running" =>
      \A asset \in DOMAIN stock_market_dict :
        LET df == stock_market_dict[asset]
            slice == snapshot[1][asset]
        IN  /\ \A i \in DOMAIN slice : slice[i].date <= current_date(1)
            /\ Len(slice) <= Len(df)
            /\ \A i \in DOMAIN slice : slice[i] = df[i]
            /\ \A j \in DOMAIN df :
                 df[j].date <= current_date(1) => j \in DOMAIN slice

\* a date at which one asset has rows on, before and after it
C1_Witness ==
    /\ pc[1] = "running"
    /\ \E asset \in DOMAIN stock_market_dict :
         /\ Len(snapshot[1][asset]) >= 2
         /\ Last(snapshot[1][asset]).date = current_date(1)
         /\ Len(snapshot[1][asset]) < Len(stock_market_dict[asset])

\* C2: update_wallet of a BUY of q at price p on a wallet that holds the asset
\* adds q to the asset's entry and subtracts q*p from the base currency's; of
\* a SELL, subtracts q and adds q*p; every other entry is as before.
C2_LedgerConservation ==
    (/\ call.op = "update_wallet"
     /\ call.transaction_dto.transaction_type \in {BUY, SELL}
     /\ call.transaction_dto.asset \in DOMAIN call.before)
    =>
    LET t == call.transaction_dto
        q == IF t.transaction_type = BUY THEN t.asset_amount
             ELSE RNeg(t.asset_amount)
    IN  /\ call.raised = None
        /\ DOMAIN call.after = DOMAIN call.before
        /\ \A k \in DOMAIN call.before :
             call.after[k] =
               IF k = t.asset THEN RAdd(call.before[k], q)
               ELSE IF k = base_currency
                 THEN RSub(call.before[k], RMul(q, t.asset_price))
               ELSE call.before[k]

\* a BUY of a fractional quantity on a wallet with a second currency
C2_Witness ==
    /\ call.op = "update_wallet"
    /\ call.transaction_dto.transaction_type = BUY
    /\ call.transaction_dto.asset_amount = Frac(25, 3)
    /\ call.raised = None
    /\ "EUR" \in DOMAIN call.before
    /\ call.after # call.before

\* the whole days between the current date of run 1 and the last observation of
\* the current strategy's asset (there is one)
C3_Staleness ==
    current_date(1)
      - SetMax(ObservedUpTo(CurStrategy(1).trading_asset, current_date(1)))

\* C3: a strategy whose asset's last observation is more than
\* max_transaction_date_difference days old at the current date is not
\* evaluated: its step changes no prediction list, no wallet entry and no
\* history; at a difference up to the bound, the bound included, the strategy
\* is evaluated: its prediction list grows by one.
C3_StalenessSkip ==
    [][(/\ pc[1] = "running"
        /\ ObservedUpTo(CurStrategy(1).trading_asset, current_date(1)) # {})
       =>
       IF C3_Staleness > max_transaction_date_difference
         THEN /\ predictions'[1] = predictions[1]
              /\ wallet'[1] = wallet[1]
              /\ history'[1] = history[1]
       ELSE Len(predictions'[1][CurIndex(1)]) = Len(predictions[1][CurIndex(1)]) + 1
      ]_vars

\* the dates of the run at which `asset` has been observed
C3_DatesWithData(asset) ==
    {i \in 1..Len(Dates) : ObservedUpTo(asset, Dates[i]) # {}}

\* a completed run in which a strategy was evaluated at some dates and skipped
\* at another where its asset had data
C3_Witness ==
    /\ pc[1] = "completed"
    /\ \E i \in 1..Len(strategies) :
         /\ Len(predictions[1][i]) > 0
         /\ Len(predictions[1][i])
              < Cardinality(C3_DatesWithData(strategies[i].trading_asset))

\* strategy i comes before strategy j: by priority, then by registration
C4_Before(i, j) ==
    \/ strategies[i].priority < strategies[j].priority
    \/ /\ strategies[i].priority = strategies[j].priority
       /\ i < j

\* C4: within a date the strategies are visited, and their transactions
\* applied, in ascending priority, those of equal priority in their order of
\* registration: the history's records of one date are in that order, and the
\* strategies visited before the current one come before it.
C4_PriorityOrdering ==
    /\ \A m, n \in DOMAIN history[1] :
         (m < n /\ history[1][m].time = history[1][n].time)
           => C4_Before(history[1][m].index, history[1][n].index)
    /\ pc[1] = "running" =>
         \A p \in 1..(pos[1] - 1) : C4_Before(Order[p], CurIndex(1))

\* two records of one date, the first of the strategy registered last
C4_Witness ==
    \E m, n \in DOMAIN history[1] :
      /\ m < n
      /\ history[1][m].time = history[1][n].time
      /\ history[1][m].index > history[1][n].index

\* C5: for an asset that does not allow fractional amounts, the amount either
\* quantity manager computes, for a BUY or a SELL, is an integer (truncated
\* toward zero).
C5_IntegerRounding ==
    (/\ call.op = "compute_asset_amount"
     /\ call.raised = None
     /\ call.transaction_dto.transaction_type \in {BUY, SELL}
     /\ ~allow_float_amount(call.transaction_dto.asset))
    => RIsInt(call.asset_amount)

\* C6: update_wallet of a BUY or a SELL of an asset the wallet has no entry for
\* raises, and leaves every entry of the wallet as it was.
C6_UnknownAsset ==
    (/\ call.op = "update_wallet"
     /\ call.transaction_dto.transaction_type \in {BUY, SELL}
     /\ call.transaction_dto.asset \notin DOMAIN call.before)
    => /\ call.raised = "ValueError"
       /\ call.after = call.before

\* a SELL of a quantity that is not zero, of an asset the wallet does not hold
C6_Witness ==
    /\ call.op = "update_wallet"
    /\ call.transaction_dto.transaction_type = SELL
    /\ call.transaction_dto.asset \notin DOMAIN call.before
    /\ call.transaction_dto.asset_amount = R(8)
    /\ call.raised = "ValueError"

\* C7: every transaction applied to the wallet is followed by the append of
\* exactly one WalletUpdate (the date, a copy of the wallet, the transaction,
\* the balance after it); nothing else appends, and the records already in the
\* history are never changed or removed.
C7_HistoryAppendOnly ==
    [][/\ wallet'[1] # wallet[1] =>
            /\ Len(history'[1]) = Len(history[1]) + 1
            /\ Last(history'[1]).time = current_date(1)
            /\ Last(history'[1]).wallet_amounts = wallet'[1]
       /\ history'[1] # history[1] =>
            /\ Len(history'[1]) = Len(history[1]) + 1
            /\ SubSeq(history'[1], 1, Len(history[1])) = history[1]
      ]_vars

\* both runs have ended
C8_BothEnded == \A r \in Runs : pc[r] \in {"completed", "aborted"}

\* no strategy draws its predictions at random
C8_Deterministic ==
    \A i \in 1..Len(strategies) :
      strategies[i].trading_algorithm.kind \in {"steady", "majority"}

C9_Tail(repetitions, log) ==
    LET k == IF repetitions < Len(log) THEN repetitions ELSE Len(log)
    IN  {log[i] : i \in (Len(log) - k + 1)..Len(log)}

\* C9: for repetitions R >= 1 and a prediction history that is not empty, the
\* trigger returns BUY iff each of the last min(R, length) entries is INCREASE,
\* SELL iff each is DECREASE, HOLD otherwise.
C9_RepeatedPredictions ==
    (call.op = "evaluate_predictions" /\ Len(call.prediction_history) > 0) =>
      LET tail == C9_Tail(call.repetitions, call.prediction_history)
      IN  /\ call.result = BUY <=> tail = {INCREASE}
          /\ call.result = SELL <=> tail = {DECREASE}
          /\ call.result = HOLD <=> tail \notin {{INCREASE}, {DECREASE}}

\* a history shorter than the repetitions, all INCREASE: BUY
C9_Witness ==
    /\ call.op = "evaluate_predictions"
    /\ Len(call.prediction_history) = 2
    /\ call.repetitions = 3
    /\ call.prediction_history = <<INCREASE, INCREASE>>
    /\ call.result = BUY

\* the current strategy of run 1 has a window its asset's data does not fill
C10_ShortData ==
    /\ CurStrategy(1).trading_algorithm.kind \in {"steady", "majority"}
    /\ Cardinality(ObservedUpTo(CurStrategy(1).trading_asset, current_date(1)))
         < CurStrategy(1).trading_algorithm.window_size

\* C10: a strategy with the steady or the majority algorithm, evaluated on
\* fewer rows than its window, logs UNKNOWN and produces no transaction; and
\* no transaction is produced when one of the last R predictions of the
\* strategy, the new one included, is UNKNOWN or STABLE: the wallet and the
\* history are unchanged and the run goes on.
C10_UnknownNoSignal ==
    [][(/\ pc[1] = "running"
        /\ predictions'[1] # predictions[1])
       =>
       LET log == predictions'[1][CurIndex(1)]
           quiet == /\ wallet'[1] = wallet[1]
                    /\ history'[1] = history[1]
                    /\ pc'[1] # "aborted"
       IN  /\ C10_ShortData => (Last(log) = UNKNOWN /\ quiet)
           /\ (C9_Tail(CurStrategy(1).repetitions, log) \cap {UNKNOWN, STABLE} # {})
                => quiet
      ]_vars

\* a strategy with repetitions 2 whose predictions end UNKNOWN, INCREASE, and
\* that has no record in the history
C10_Witness ==
    \E i \in 1..Len(strategies) :
      /\ strategies[i].repetitions = 2
      /\ Len(predictions[1][i]) >= 2
      /\ predictions[1][i][Len(predictions[1][i]) - 1] = UNKNOWN
      /\ Last(predictions[1][i]) = INCREASE
      /\ \A m \in DOMAIN history[1] : history[1][m].index # i

\* the inputs of the scenario: one asset, priced 10, 11, 12, 13 on the days
\* 1 to 4; one strategy on it, a steady trend of window 3 with a trigger of 1
\* repetition and a fixed amount of 100 to buy
C11_Scenario ==
    /\ Len(strategies) = 1
    /\ strategies[1].trading_algorithm = SteadyTrendAlgorithm(3)
    /\ strategies[1].repetitions = 1
    /\ strategies[1].buy_transaction_quantity_manager = ByFixedAmount(R(100))
    /\ DOMAIN stock_market_dict = {strategies[1].trading_asset}
    /\ LET df == stock_market_dict[strategies[1].trading_asset]
       IN  /\ Len(df) >= 4
           /\ \A i \in 1..4 : df[i] = [date |-> i, close |-> 9 + i]

\* C11: in the scenario, from a wallet of 1000 of the base currency, nothing
\* is transacted on the days 1 and 2, and on day 3 a BUY is executed, of 100/12
\* of an asset that allows fractional amounts and of 8 of one that does not,
\* which leaves 1000 - 100 of the base currency.
C11_EndToEnd ==
    [][(/\ C11_Scenario
        /\ pc[1] = "running"
        /\ history[1] = <<>>
        /\ wallet[1][base_currency] = R(1000))
       =>
       IF current_date(1) \in {1, 2}
         THEN history'[1] = <<>> /\ wallet'[1] = wallet[1]
       ELSE IF current_date(1) = 3
         THEN /\ Len(history'[1]) = 1
              /\ history'[1][1].time = 3
              /\ history'[1][1].transaction_dto.transaction_type = BUY
              /\ history'[1][1].transaction_dto.asset_amount =
                   IF allow_float_amount(strategies[1].trading_asset)
                     THEN Frac(100, 12)
                   ELSE R(8)
              /\ wallet'[1][base_currency] = R(900)
       ELSE TRUE
      ]_vars

\* C12: at a date at which the current strategy's asset has not been observed
\* yet, the strategy is not evaluated: its step leaves every prediction list,
\* the wallet and the history as they are, and does not end the run.
C12_EmptySliceSkip ==
    [][(/\ pc[1] = "running"
        /\ ObservedUpTo(CurStrategy(1).trading_asset, current_date(1)) = {})
       =>
       /\ predictions'[1] = predictions[1]
       /\ wallet'[1] = wallet[1]
       /\ history'[1] = history[1]
       /\ pc'[1] # "aborted"
      ]_vars

\* the first strategy of a date was skipped, its asset not observed yet, after
\* the other strategy has transacted
C12_Witness ==
    /\ pc[1] = "running"
    /\ tick[1] >= 2
    /\ pos[1] = 2
    /\ ObservedUpTo(strategies[Order[1]].trading_asset, current_date(1)) = {}
    /\ predictions[1][Order[1]] = <<>>
    /\ Len(history[1]) > 0

\* the rows of `asset` dated `date` or earlier, none for an asset without data
C13_Observed(smd, asset, date) ==
    IF asset \in DOMAIN smd
      THEN {i \in DOMAIN smd[asset] : smd[asset][i].date <= date}
    ELSE {}

\* C13: get_asset_price returns the close of the asset's latest row dated
\* `date` or earlier; it returns None, and raises nothing, when the asset has no
\* market data and when `date` is before the asset's first row.
C13_PriceOf ==
    call.op = "get_asset_price" =>
      LET observed == C13_Observed(call.stock_market_dict, call.asset, call.date)
      IN  IF observed = {} THEN call.result = [tag |-> None]
          ELSE call.result =
                 [tag |-> "float",
                  v |-> R(call.stock_market_dict[call.asset][SetMax(observed)].close)]

\* the price of `asset` at `date` times the amount held, 0 without a price
C14_Worth(smd, amounts, asset, date) ==
    LET observed == C13_Observed(smd, asset, date)
    IN  IF observed = {} THEN R(0)
        ELSE RMul(R(smd[asset][SetMax(observed)].close), amounts[asset])

RECURSIVE C14_Sum(_, _, _, _)
C14_Sum(smd, amounts, assets, date) ==
    IF assets = {} THEN R(0)
    ELSE LET a == CHOOSE x \in assets : TRUE
         IN  RAdd(C14_Worth(smd, amounts, a, date),
                  C14_Sum(smd, amounts, assets \ {a}, date))

\* C14: _get_wallet_balance(date) raises nothing and returns the amount of the
\* base currency plus, for every asset of the wallet, its price at `date` times
\* the amount held, an asset without a price at `date` (no market data, or none
\* yet) counting 0; the other currencies of the wallet count nothing.
C14_NetWorth ==
    call.op = "get_wallet_balance" =>
      /\ call.raised = None
      /\ call.balance =
           RAdd(call.amounts[base_currency],
                C14_Sum(call.stock_market_dict, call.amounts,
                        DOMAIN call.amounts \ CurrencyNames, call.date))

\* C15: every record of the history has a transaction of type BUY or SELL, with
\* an amount; so the report of the history counts as many transactions as BUYs
\* and SELLs together.
C15_HoldNotMaterialized ==
    /\ \A m \in DOMAIN history[1] :
         /\ history[1][m].transaction_dto.transaction_type \in {BUY, SELL}
         /\ history[1][m].transaction_dto.asset_amount # NoAmount
    /\ \A report \in generate_report(history[1]) :
         report.raised = None =>
           report.total_transactions =
             report.total_buy_transactions + report.total_sell_transactions

\* a completed run with a BUY and a SELL in its history, in which a strategy
\* made more predictions than transactions
C15_Witness ==
    /\ pc[1] = "completed"
    /\ \E m, n \in DOMAIN history[1] :
         /\ history[1][m].transaction_dto.transaction_type = BUY
         /\ history[1][n].transaction_dto.transaction_type = SELL
    /\ \E i \in 1..Len(strategies) :
         Len(predictions[1][i])
           > Cardinality({m \in DOMAIN history[1] : history[1][m].index = i})

\* run 1 has ended
C16_Ended == pc[1] \in {"completed", "aborted"}

\* the dates a run goes through are the observation dates of the assets, each
\* once, in ascending order
C16_DatesOnceAscending ==
    /\ \A i, j \in DOMAIN Dates : i < j => Dates[i] < Dates[j]
    /\ {Dates[i] : i \in DOMAIN Dates}
         = UNION {Index(stock_market_dict[a]) : a \in DOMAIN stock_market_dict}

\* a run starts at the first date, moves from a date to the next one only, and
\* completes at the last one only; a run that has ended changes nothing more
C16_ForwardPass ==
    /\ pc[1] = "idle" => (pc'[1] = "idle" \/ (pc'[1] = "running" /\ tick'[1] = 1))
    /\ pc[1] = "running" =>
         /\ tick'[1] \in {tick[1], tick[1] + 1}
         /\ pc'[1] = "completed" => (tick[1] = Len(Dates) /\ tick'[1] = tick[1])
    /\ C16_Ended =>
         /\ pc'[1] = pc[1]
         /\ tick'[1] = tick[1]
         /\ history'[1] = history[1]
         /\ wallet'[1] = wallet[1]
         /\ predictions'[1] = predictions[1]

\* C16 as stated: a run goes through every observation date once, in ascending
\* order, and then completes, for any market data and strategies; once it has,
\* the history, the wallet and the prediction lists change no more.
C16_AlwaysCompletes ==
    /\ []C16_DatesOnceAscending
    /\ [][C16_ForwardPass]_vars
    /\ (pc[1] = "running" ~> pc[1] = "completed")

\* C16, amended: a run goes through the observation dates once each, in
\* ascending order, and ends: it completes after the last date, unless an
\* exception of a strategy's step ends it at the date of that step; once it has
\* ended, the history, the wallet and the prediction lists change no more.
C16_SinglePass ==
    /\ []C16_DatesOnceAscending
    /\ [][C16_ForwardPass]_vars
    /\ (pc[1] = "running" ~> C16_Ended)
    /\ [](pc[1] = "completed" => tick[1] = Len(Dates))

\* a run over dates that no single asset has all of, completed with
\* transactions made
C16_Witness ==
    /\ pc[1] = "completed"
    /\ tick[1] = Len(Dates)
    /\ Len(Dates) >= 3
    /\ \A a \in DOMAIN stock_market_dict : Len(stock_market_dict[a]) < Len(Dates)
    /\ Len(history[1]) > 0

\* the largest and the smallest of the balances of a list
C17_Largest(balances) ==
    CHOOSE b \in {balances[i] : i \in DOMAIN balances} :
      \A i \in DOMAIN balances : ~RLt(b, balances[i])
C17_Smallest(balances) ==
    CHOOSE b \in {balances[i] : i \in DOMAIN balances} :
      \A i \in DOMAIN balances : ~RLt(balances[i], b)

\* C17: the report of wallet updates with the balances b[1..n], n >= 1, has the
\* net profit b[n] - b[1], the maximum profit max(b) - b[1], the maximum loss
\* min(b) - b[1] and, b[1] not being zero, the return (b[n] - b[1]) / b[1]:
\* the balances 1000, 1100, 950, 1200 give 0.2, 200, 200 and -50.
C17_ReportMetrics ==
    (call.op = "generate_report" /\ Len(call.wallet_updates) > 0) =>
      LET b == [i \in DOMAIN call.wallet_updates |-> call.wallet_updates[i].balance]
          n == Len(b)
          report == call.report
      IN  /\ b[1] # R(0) => report.raised = None
          /\ report.raised = None =>
               /\ report.net_profit = RSub(b[n], b[1])
               /\ report.max_profit = RSub(C17_Largest(b), b[1])
               /\ report.max_loss = RSub(C17_Smallest(b), b[1])
               /\ b[1] # R(0) => report.roi = RDiv(RSub(b[n], b[1]), b[1])
               /\ b = <<R(1000), R(1100), R(950), R(1200)>> =>
                    /\ report.roi = Frac(2, 10)
                    /\ report.net_profit = R(200)
                    /\ report.max_profit = R(200)
                    /\ report.max_loss = R(-50)

\* the report of the balances 1000, 1100, 950, 1200
C17_Witness ==
    /\ call.op = "generate_report"
    /\ Len(call.wallet_updates) = 4
    /\ [i \in 1..4 |-> call.wallet_updates[i].balance]
         = <<R(1000), R(1100), R(950), R(1200)>>
    /\ call.report.raised = None
    /\ call.report.max_loss = R(-50)

\* C18: generate_report of no wallet updates raises EmptyHistoryError, an error
\* of its own, not the error of an index or of arithmetic.
C18_EmptyHistoryError ==
    (call.op = "generate_report" /\ call.wallet_updates = <<>>) =>
      call.report.raised = "EmptyHistoryError"

\* C19: make_transaction called with no rows of the strategy's asset returns no
\* transaction, raises nothing and leaves the strategy's predictions as they
\* were, whatever the algorithm.
C19_EmptySliceDecide ==
    (call.op = "make_transaction" /\ call.stock_market_data = <<>>) =>
      /\ call.outcome.raised = None
      /\ call.outcome.returned = None
      /\ call.outcome.predictions = call.log

\* strategy i is evaluated at the t-th date: its asset has rows by then, the
\* last one not older than max_transaction_date_difference
C20_Eligible(i, t) ==
    LET observed == ObservedUpTo(strategies[i].trading_asset, Dates[t])
    IN  /\ observed # {}
        /\ Dates[t] - SetMax(observed) <= max_transaction_date_difference

\* the step of strategy i at the current date of run 1 has been taken
C20_Visited(i) ==
    LET p == CHOOSE q \in DOMAIN Order : Order[q] = i
    IN  \/ pc[1] = "completed"
        \/ pc[1] = "running" /\ p < pos[1]
        \/ pc[1] = "aborted" /\ p <= pos[1]

\* the number of steps of strategy i so far at which it was evaluated
C20_Evaluations(i) ==
    Cardinality({t \in 1..(tick[1] - 1) : C20_Eligible(i, t)})
      + (IF tick[1] >= 1 /\ C20_Visited(i) /\ C20_Eligible(i, tick[1])
           THEN 1 ELSE 0)

\* a step of run 1 changes the predictions of the current strategy only, by
\* appending one
C20_AppendOnly ==
    \A i \in 1..Len(strategies) :
      \/ predictions'[1][i] = predictions[1][i]
      \/ /\ pc[1] = "running"
         /\ i = CurIndex(1)
         /\ \E prediction \in PredictionEnum :
              predictions'[1][i] = Append(predictions[1][i], prediction)

\* C20: each evaluation of a strategy, on rows that are not too old, appends
\* one prediction to its list, whether the outcome is a BUY, a SELL or a HOLD:
\* at every point of a run the length of a strategy's list is the number of its
\* steps so far with rows not older than the bound; a list is never shortened,
\* nor changed by the step of another strategy.
C20_LogGrowth ==
    /\ [](\A i \in 1..Len(strategies) :
            Len(predictions[1][i]) = C20_Evaluations(i))
    /\ [][C20_AppendOnly]_vars

\* a completed run of two strategies, one evaluated at fewer dates than the
\* other, with transactions and with predictions that led to none
C20_Witness ==
    /\ pc[1] = "completed"
    /\ \E i, j \in 1..Len(strategies) :
         /\ 0 < Len(predictions[1][i])
         /\ Len(predictions[1][i]) < Len(predictions[1][j])
    /\ 0 < Len(history[1])
    /\ \E i \in 1..Len(strategies) :
         Len(predictions[1][i])
           > 1 + Cardinality({m \in DOMAIN history[1] : history[1][m].index = i})

(***************************************************************************)
(* C21.  Strategies that buy on the same date compete for the currency     *)
(***************************************************************************)
\* the quantity a buy policy sizes from a balance of the base currency
C21_Quantity(manager, balance, asset, price) ==
    IF manager.kind = "percentage"
      THEN LET quantity == RDiv(RMul(balance, manager.percentage), price)
           IN  IF allow_float_amount(asset) THEN quantity ELSE PyInt(quantity)
    ELSE LET fixed == IF allow_float_amount(asset) THEN manager.fixed_amount
                      ELSE PyInt(manager.fixed_amount)
         IN  RDiv(RMin(balance, fixed), price)

C21_WholeBalance(i) ==
    strategies[i].buy_transaction_quantity_manager = ByWalletPercentage(R(1))

C22_Returns(transaction_type) ==
    /\ pc[1] = "running"
    /\ \E prediction \in PredictionEnum :
         /\ predictions' = [predictions EXCEPT
                              ![1][CurIndex(1)] = Append(@, prediction)]
         /\ evaluate_predictions(CurStrategy(1).repetitions,
                                 Append(LogOf(1), prediction)) = transaction_type

\* the wallet after the step is the wallet before it with a quantity of the
\* strategy's asset moved in (BUY) or out (SELL) and the quantity times the
\* last close of the asset's data moved the other way: nothing else is written
C22_Applies ==
    LET asset == CurStrategy(1).trading_asset
        price == R(Last(stock_market_data(1)).close)
    IN  /\ DOMAIN wallet'[1] = DOMAIN wallet[1]
        /\ asset \in DOMAIN wallet[1]
        /\ \A k \in DOMAIN wallet[1] \ {asset, base_currency} :
             wallet'[1][k] = wallet[1][k]
        /\ RSub(wallet'[1][base_currency], wallet[1][base_currency])
             = RNeg(RMul(RSub(wallet'[1][asset], wallet[1][asset]), price))
        /\ history'[1] # history[1]
             => LET t == Last(history'[1]).transaction_dto
                IN  wallet'[1][asset] =
                      IF t.transaction_type = BUY
                        THEN RAdd(wallet[1][asset], t.asset_amount)
                      ELSE RSub(wallet[1][asset], t.asset_amount)

\* C22: a step in which the strategy is skipped, or is asked and returns no
\* transaction, leaves every entry of the wallet as it was; the wallet changes
\* only in a step in which the strategy returned a BUY or a SELL, and then by
\* exactly what applying that transaction writes: the strategy's own call
\* (prediction, trigger, sizing) has written nothing.
C22_StrategiesNeverMutate ==
    [][/\ (wallet'[1] # wallet[1])
            => (C22_Returns(BUY) \/ C22_Returns(SELL)) /\ C22_Applies
       /\ (predictions' = predictions \/ C22_Returns(HOLD))
            => wallet' = wallet]_vars

\* the run has completed: a transaction was applied before the last date, the
\* wallet is other than it was built, and is as that transaction left it
\* through the steps (skips, HOLDs) that followed
C22_Witness ==
    /\ pc[1] = "completed"
    /\ Len(history[1]) > 0
    /\ Last(history[1]).time < Dates[Len(Dates)]
    /\ wallet[1] = Last(history[1]).wallet_amounts
    /\ wallet[1] # wallet[2]
    /\ \E i \in 1..Len(strategies) :
         Len(predictions[1][i])
           > Cardinality({m \in DOMAIN history[1] : history[1][m].index = i})

(***************************************************************************)
(* C23.  A transaction exchanges value at the quoted price                 *)
(***************************************************************************)
\* what the amounts are worth at a date: the base currency, and every asset at
\* its last close at or before the date
C23_NetWorth(amounts, date) ==
    RAdd(amounts[base_currency],
         C14_Sum(stock_market_dict, amounts, WalletAssets(amounts), date))

\* C23: when every asset of the wallet has market data, the balance of the
\* WalletUpdate a step appends (what the wallet is worth at the current date
\* once the transaction is applied) equals what the wallet was worth at that
\* date before the step: the transaction is priced at the asset's last close
\* at that date.
C23_ValueConservation ==
    [][(/\ history'[1] # history[1]
        /\ WalletAssets(wallet[1]) \subseteq DOMAIN stock_market_dict)
       => /\ Last(history'[1]).time = current_date(1)
          /\ Last(history'[1]).balance = C23_NetWorth(wallet[1], current_date(1))
          /\ Last(history'[1]).balance = C23_NetWorth(wallet'[1], current_date(1))]_vars

\* the first transaction of a run moved a positive quantity, and its balance
\* is what the wallet the run began with was worth at that date
C23_Witness ==
    /\ Len(history[1]) > 0
    /\ WalletAssets(wallet[2]) \subseteq DOMAIN stock_market_dict
    /\ RLt(R(0), history[1][1].transaction_dto.asset_amount)
    /\ history[1][1].wallet_amounts # wallet[2]
    /\ RLt(R(0), wallet[2]["BTC"]) /\ RLt(R(0), wallet[2]["AAPL"])
    /\ history[1][1].balance = C23_NetWorth(wallet[2], history[1][1].time)

(***************************************************************************)
(* C24.  Sizing by a fixed amount                                          *)
(***************************************************************************)
C24_Smaller(a, b) == IF a.n * b.d <= b.n * a.d THEN a ELSE b

\* the whole part of a rational, towards zero
C24_Whole(x) ==
    IF x.n >= 0 THEN R(x.n \div x.d) ELSE R(-((-x.n) \div x.d))

C24_Fixed(c) ==
    IF allow_float_amount(c.transaction_dto.asset) THEN c.manager.fixed_amount
    ELSE C24_Whole(c.manager.fixed_amount)

\* C24: a fixed-amount manager sizes a BUY to the smaller of the wallet's base
\* currency and the fixed amount, divided by the price, and a SELL to the
\* smaller of the amount held of the asset and the fixed amount; for an asset
\* that does not allow float amounts the fixed amount is first truncated to an
\* integer.
C24_FixedAmountSizing ==
    (/\ call.op = "compute_asset_amount"
     /\ call.manager.kind = "fixed"
     /\ call.raised = None)
    => LET t == call.transaction_dto
       IN  /\ t.transaction_type = BUY
                => call.asset_amount =
                     RDiv(C24_Smaller(call.amounts[base_currency], C24_Fixed(call)),
                          t.asset_price)
           /\ t.transaction_type = SELL
                => call.asset_amount =
                     C24_Smaller(call.amounts[t.asset], C24_Fixed(call))

\* a BUY of an asset without float amounts by a manager of the fixed amount
\* 5/2, from a wallet with more currency than that: 2 is spent
C24_Witness ==
    /\ call.op = "compute_asset_amount"
    /\ call.manager = ByFixedAmount(Frac(5, 2))
    /\ call.raised = None
    /\ call.transaction_dto.transaction_type = BUY
    /\ ~allow_float_amount(call.transaction_dto.asset)
    /\ RLt(R(3), call.amounts[base_currency])
    /\ call.asset_amount = RDiv(R(2), call.transaction_dto.asset_price)

(***************************************************************************)
(* C25.  No overdraft with the managers of transaction.py                  *)
(***************************************************************************)
\* C25: a wallet without negative entries, managers of a percentage within
\* [0, 1] built with that wallet, positive prices: after a BUY is sized and
\* applied no entry of the wallet is negative.  Here the BUY is of the whole
\* balance (percentage 1.0), computed as Python computes it, and the entry is
\* the base currency's.
C25_NoOverdraft ==
    call.op = "buy_in_float" => call.currency_after.sign >= 0

(***************************************************************************)
(* C26.  The dates and the price of the records of the history             *)
(***************************************************************************)
\* the close of the asset observed on the date
C26_CloseOn(asset, date) ==
    LET df == stock_market_dict[asset]
    IN  R(df[CHOOSE i \in DOMAIN df : df[i].date = date].close)

\* C26: the records of the history are in non-decreasing order of their date;
\* the date of the transaction of a record is the date of the asset's last
\* observation at or before the record's date, is no later than the record's
\* date and no more than max_transaction_date_difference days before it; the
\* price of the transaction is the asset's close on the transaction's date.
C26_HistoryTimeBounds ==
    /\ \A m \in 1..(Len(history[1]) - 1) : history[1][m].time <= history[1][m + 1].time
    /\ \A m \in DOMAIN history[1] :
         LET time == history[1][m].time
             t == history[1][m].transaction_dto
         IN  /\ t.asset \in DOMAIN stock_market_dict
             /\ ObservedUpTo(t.asset, time) # {}
             /\ t.transaction_date = SetMax(ObservedUpTo(t.asset, time))
             /\ 0 <= time - t.transaction_date
             /\ time - t.transaction_date <= max_transaction_date_difference
             /\ t.asset_price = C26_CloseOn(t.asset, t.transaction_date)

\* records of two dates, the later one decided on an observation that is as
\* old as the bound allows, and not of the record's date
C26_Witness ==
    \E m \in 2..Len(history[1]) :
        /\ history[1][m - 1].time < history[1][m].time
        /\ history[1][m].time - history[1][m].transaction_dto.transaction_date
             = max_transaction_date_difference
        /\ max_transaction_date_difference > 0

(***************************************************************************)
(* C27.  The steady trend algorithm                                        *)
(***************************************************************************)
\* the last `window_size` closes of the data of a call of make_prediction
C27_Closes ==
    LET df == call.stock_market_data
        w == call.algorithm.window_size
    IN  [i \in 1..w |-> df[Len(df) - w + i].close]

C27_EveryPairRises ==
    \A i \in 1..(call.algorithm.window_size - 1) : C27_Closes[i] < C27_Closes[i + 1]
C27_EveryPairFalls ==
    \A i \in 1..(call.algorithm.window_size - 1) : C27_Closes[i] > C27_Closes[i + 1]

C27_Called ==
    /\ call.op = "make_prediction"
    /\ call.algorithm.kind = "steady"

C27_Filled == Len(call.stock_market_data) >= call.algorithm.window_size

\* C27 as stated: for every window size from 1 on, on data of at least that
\* many rows, the prediction is INCREASE iff every consecutive pair of the
\* window rises, DECREASE iff every pair falls, and STABLE otherwise; on
\* fewer rows it is UNKNOWN.
C27_StrictRunFromOne ==
    C27_Called
    => IF C27_Filled
         THEN /\ call.result = INCREASE <=> C27_EveryPairRises
              /\ call.result = DECREASE <=> C27_EveryPairFalls
              /\ call.result = STABLE <=> ~(C27_EveryPairRises \/ C27_EveryPairFalls)
       ELSE call.result = UNKNOWN

\* C27, amended: the same for a window size of 2 or more; a window of 1 has
\* no pair, and the prediction on data of at least one row is INCREASE.
C27_StrictRun ==
    C27_Called
    => IF ~C27_Filled THEN call.result = UNKNOWN
       ELSE IF call.algorithm.window_size = 1 THEN call.result = INCREASE
       ELSE /\ call.result = INCREASE <=> C27_EveryPairRises
            /\ call.result = DECREASE <=> C27_EveryPairFalls
            /\ call.result = STABLE <=> ~(C27_EveryPairRises \/ C27_EveryPairFalls)

\* a window of 3 whose pairs fall, after a pair that rose: DECREASE
C27_Witness ==
    /\ C27_Called
    /\ call.algorithm.window_size = 3
    /\ Len(call.stock_market_data) = 4
    /\ call.stock_market_data[1].close < call.stock_market_data[2].close
    /\ C27_EveryPairFalls
    /\ call.result = DECREASE

(***************************************************************************)
(* C28.  The majority trend algorithm                                      *)
(***************************************************************************)
\* the rows of the window of a call but the first: each closes a pair
C28_Pairs ==
    LET n == Len(call.stock_market_data)
    IN  (n - call.algorithm.window_size + 2)..n

C28_Rises ==
    Cardinality({i \in C28_Pairs : call.stock_market_data[i - 1].close
                                     < call.stock_market_data[i].close})
C28_Falls ==
    Cardinality({i \in C28_Pairs : call.stock_market_data[i - 1].close
                                     > call.stock_market_data[i].close})

C28_Called ==
    /\ call.op = "make_prediction"
    /\ call.algorithm.kind = "majority"

\* C28: on data of at least window_size rows the prediction is INCREASE when
\* more consecutive pairs of the last window_size closes rise than fall,
\* DECREASE when more fall than rise, and STABLE when as many rise as fall, as
\* when all the closes are equal; on fewer rows it is UNKNOWN.
C28_Majority ==
    C28_Called
    => IF Len(call.stock_market_data) < call.algorithm.window_size
         THEN call.result = UNKNOWN
       ELSE IF C28_Rises > C28_Falls THEN call.result = INCREASE
       ELSE IF C28_Falls > C28_Rises THEN call.result = DECREASE
       ELSE call.result = STABLE

\* a window of three equal closes, after a close that was higher: STABLE
C28_Witness ==
    /\ C28_Called
    /\ call.algorithm.window_size = 3
    /\ Len(call.stock_market_data) = 4
    /\ call.stock_market_data[1].close > call.stock_market_data[2].close
    /\ C28_Rises = 0 /\ C28_Falls = 0
    /\ call.result = STABLE

(***************************************************************************)
(* C29.  The transactions of a strategy on one observation of its asset    *)
(***************************************************************************)
C29_SameStrategy(m, n) ==
    /\ m # n
    /\ history[1][m].index = history[1][n].index

\* C29 as stated: a strategy executes at most one transaction on an
\* observation of its asset, and logs at most one prediction on it: the dates
\* of other assets neither add a prediction to its log nor a transaction
\* dated with an observation it has traded on.
C29_OncePerObservation ==
    /\ \A m, n \in DOMAIN history[1] :
         C29_SameStrategy(m, n)
         => history[1][m].transaction_dto.transaction_date
              # history[1][n].transaction_dto.transaction_date
    /\ pc[1] = "running"
         => \A i \in 1..Len(strategies) :
              Len(predictions[1][i])
                <= Cardinality(ObservedUpTo(strategies[i].trading_asset,
                                            current_date(1)))

\* C29, amended: a strategy executes at most one transaction on a date of the
\* run; the transactions it dates with one observation of its asset are of
\* different dates of the run, each no more than
\* max_transaction_date_difference days after the observation.
C29_OncePerTick ==
    \A m, n \in DOMAIN history[1] :
        C29_SameStrategy(m, n)
        => /\ history[1][m].time # history[1][n].time
           /\ history[1][m].transaction_dto.transaction_date
                = history[1][n].transaction_dto.transaction_date
              => /\ history[1][m].time
                      - history[1][m].transaction_dto.transaction_date
                      <= max_transaction_date_difference
                 /\ history[1][n].time
                      - history[1][n].transaction_dto.transaction_date
                      <= max_transaction_date_difference

\* a strategy has executed two transactions on one observation of its asset,
\* the second on a later date, which another asset's observation gave the run
C29_Witness ==
    \E m, n \in DOMAIN history[1] :
        /\ C29_SameStrategy(m, n)
        /\ history[1][m].time < history[1][n].time
        /\ history[1][m].transaction_dto.transaction_date
             = history[1][n].transaction_dto.transaction_date
        /\ history[1][n].time
             \notin Index(stock_market_dict[history[1][n].transaction_dto.asset])

=============================================================================
